---- MODULE Spec2Model ----
(***************************************************************************)
(* neo4jtest.py: a connectivity probe.  test_connection(uri, encrypted)    *)
(* prints a header, builds a driver, opens a session in a `with` block,    *)
(* runs one fixed query, prints "OK: <msg>", and prints "ERROR: <repr>"    *)
(* for any Exception.  The module-level loop calls it once per entry of    *)
(* the endpoints list.                                                     *)
(*                                                                         *)
(* The network and the neo4j library are the environment: `world` holds,   *)
(* per endpoint met so far, the stage at which the library raises (if any) *)
(* and whether closing a session raises; it is decided when an endpoint is *)
(* first probed and stays fixed.  `destructor_closes` fixes whether the    *)
(* library's Driver finalizer closes a driver that is dropped unclosed.    *)
(***************************************************************************)
EXTENDS Naturals, Sequences, FiniteSets, TLC

VARIABLES
    endpoints,          \* the module-level list (lines 19-32)
    world,              \* environment: endpoint met so far -> its condition
    destructor_closes,  \* environment: does dropping a driver close it
    idx,                \* position of the for loop in endpoints (line 34)
    pc,                 \* control point
    uri, user, password, encrypted,   \* parameters of test_connection
    driver,             \* local `driver`: <<>> unbound, <<d>> bound
    session,            \* local `session`: <<>> unbound, <<s>> bound
    exc,                \* exception in flight: <<>> none, <<e>> raised
    waited,             \* seconds blocked in the current connection attempt
    out,                \* standard output, a sequence of lines
    open_drivers,       \* drivers constructed and not closed
    open_sessions,      \* sessions opened and not closed
    calls,              \* history: arguments of each GraphDatabase.driver call
    probe_start,        \* history: Len(out) at each entry of test_connection
    raised              \* history: per probe, the exception that reached `except`

vars == <<endpoints, world, destructor_closes, idx, pc, uri, user, password,
          encrypted, driver, session, exc, waited, out, open_drivers,
          open_sessions, calls, probe_start, raised>>

(***************************************************************************)
(* Bounds of the model.                                                    *)
(***************************************************************************)
\* at most this many endpoints of the list are unhealthy in one run
MaxFailures == 1
\* length of the endpoint list in the re-probing specification
MaxReruns == 3
\* the clock of a blocked connection attempt stops counting here
MaxClock == 6

(***************************************************************************)
(* Program constants.                                                      *)
(***************************************************************************)
\* line 10: connection_timeout=5
connection_timeout == 5

\* lines 19-32
EndpointList ==
    << <<"bolt://neo4j.genai.accentureanalytics.com:7687", TRUE>>,
       <<"bolt://neo4j.genai.accentureanalytics.com:7687", FALSE>>,
       <<"neo4j://neo4j.genai.accentureanalytics.com:7687", TRUE>>,
       <<"bolt://neo4j.genai.accentureanalytics.com", TRUE>>,
       <<"bolt://neo4j.genai.accentureanalytics.com", FALSE>>,
       <<"neo4j://neo4j.genai.accentureanalytics.com", TRUE>>,
       <<"bolt://neo4j-container.bluesky-12f77b3a.eastus.azurecontainerapps.io:7687", TRUE>>,
       <<"bolt://neo4j-container.bluesky-12f77b3a.eastus.azurecontainerapps.io:7687", FALSE>> >>

\* line 3: defaults of user and password
DefaultUser == "neo4j"
DefaultPassword == "neo4j"

\* line 13: RETURN 'Connection successful' AS msg
Query == [literal |-> "Connection successful", alias |-> "msg"]

(***************************************************************************)
(* Python values: exceptions, str(), repr(), f-string formatting, print.   *)
(***************************************************************************)
Exc(cls, args) == [cls |-> cls, args |-> args]

\* the exceptions the library raises at each stage of a probe
ErrorAt(stage) ==
    CASE stage = "driver"  -> Exc("ConfigurationError", <<"unsupported URI">>)
      [] stage = "session" -> Exc("DriverError", <<"driver closed">>)
      [] stage = "refused" -> Exc("ServiceUnavailable", <<"connection refused">>)
      [] stage = "timeout" -> Exc("ServiceUnavailable", <<"timed out">>)
      [] stage = "run"     -> Exc("AuthError", <<"unauthorized">>)
      [] stage = "single"  -> Exc("TypeError", <<"no record">>)
      [] stage = "close"   -> Exc("SessionExpired", <<>>)

FailStages == {"driver", "session", "refused", "timeout", "run", "single"}

Errors == {ErrorAt(s) : s \in FailStages \cup {"close"}}

\* the base class of each exception class
Base(cls) ==
    CASE cls \in {"ConfigurationError", "ServiceUnavailable", "SessionExpired"}
                                 -> "DriverError"
      [] cls = "AuthError"       -> "Neo4jError"
      [] cls \in {"DriverError", "Neo4jError", "TypeError"} -> "Exception"
      [] cls = "Exception"       -> "BaseException"
      [] OTHER                   -> "object"

RECURSIVE issubclass(_, _)
issubclass(cls, of) ==
    IF cls = of THEN TRUE
    ELSE IF cls = "object" THEN FALSE
    ELSE issubclass(Base(cls), of)

\* str(e) of an exception: its single argument, or "" when it has none
str(e) == IF Len(e.args) = 0 THEN "" ELSE e.args[1]

\* repr(e) of an exception: class name and quoted arguments
repr(e) ==
    e.cls \o "(" \o (IF Len(e.args) = 0 THEN "" ELSE "'" \o e.args[1] \o "'") \o ")"

\* f"{encrypted}" of a bool
format_bool(b) == IF b THEN "True" ELSE "False"

\* line 4: the f-string; its leading "\n" makes it two lines of text
header_text(u, enc) ==
    << "", "=== Testing " \o u \o " (encrypted=" \o format_bool(enc) \o ") ===" >>

\* faulty variant of ok_line: the key is printed, not the value stored under it
ok_line_key(record) == "OK: " \o Query.alias

\* line 14: print("OK:", record["msg"]) joins its arguments with one space
ok_line(record) == "OK: " \o record[Query.alias]

\* faulty variant of error_line: the str() of the exception instead of its repr()
error_line_str(e) == "ERROR: " \o str(e)

\* line 16: print("ERROR:", repr(e))
error_line(e) == "ERROR: " \o repr(e)

\* faulty variant of catches: a handler for one class of error only
catches_service_unavailable(e) == issubclass(e.cls, "ServiceUnavailable")

\* line 15: except Exception
catches(e) == issubclass(e.cls, "Exception")

(***************************************************************************)
(* The environment.                                                        *)
(***************************************************************************)
\* a reachability condition: the stage that fails ("none": no stage), and
\* whether session.close() raises
Condition ==
    {c \in [fail : FailStages \cup {"none"}, close : BOOLEAN] :
        c.fail \in {"driver", "session"} => ~c.close}

Healthy(c) == c.fail = "none" /\ ~c.close

\* the server's answer to the query: one record, alias -> literal
evaluate(q) == [k \in {q.alias} |-> q.literal]

\* faulty variant of GraphDatabase_driver: a driver already open is handed out again
GraphDatabase_driver_cached(u, auth, enc, timeout) ==
    IF open_drivers # <<>> THEN open_drivers[1]
    ELSE [uri |-> u, auth |-> auth, encrypted |-> enc, connection_timeout |-> timeout]

\* lines 6-11: the driver built from the call's arguments
GraphDatabase_driver(u, auth, enc, timeout) ==
    [uri |-> u, auth |-> auth, encrypted |-> enc, connection_timeout |-> timeout]

\* the condition a driver meets: that of the endpoint it points at
cond(d) == world[<<d.uri, d.encrypted>>]

\* faulty variant of timed_out: no timeout applies
timed_out_never(d, w) == FALSE

\* lines 6-11: a connection attempt gives up after connection_timeout seconds
timed_out(d, w) == w >= d.connection_timeout

(***************************************************************************)
(* The program.                                                            *)
(***************************************************************************)
\* the number of endpoints met so far that are not healthy
failures == Cardinality({e \in DOMAIN world : ~Healthy(world[e])})

\* faulty variant of has_next: the loop gives up after the first reported error
has_next_until_error(i) ==
    i < Len(endpoints) /\ \A k \in 1..Len(out) : out[k] \notin {error_line(e) : e \in Errors}

\* line 34: the for loop has another element
has_next(i) == i < Len(endpoints)

\* faulty variant of call_args: the encryption flag is passed in the place of the user
call_args_positional(ep) ==
    [uri |-> ep[1], user |-> format_bool(ep[2]), password |-> DefaultPassword,
     encrypted |-> TRUE]

\* line 35: test_connection(uri, encrypted=enc), user and password defaulted
call_args(ep) ==
    [uri |-> ep[1], user |-> DefaultUser, password |-> DefaultPassword,
     encrypted |-> ep[2]]

\* leaving test_connection: the locals are dropped; a driver dropped unclosed
\* is closed only if the library's finalizer does so
Return ==
    /\ pc' = "loop"
    /\ driver' = <<>>
    /\ open_drivers' = IF driver # <<>> /\ destructor_closes
                       THEN SubSeq(open_drivers, 1, Len(open_drivers) - 1)
                       ELSE open_drivers

\* lines 34-35: the next element of the list, or the end of the script
ForNext ==
    /\ pc = "loop"
    /\ IF has_next(idx)
       THEN LET ep == endpoints[idx + 1]
                a  == call_args(ep)
            IN /\ idx' = idx + 1
               /\ uri' = a.uri /\ user' = a.user /\ password' = a.password
               /\ encrypted' = a.encrypted
               /\ IF ep \in DOMAIN world
                  THEN world' = world
                  ELSE \E c \in Condition :
                         /\ Healthy(c) \/ failures < MaxFailures
                         /\ world' = [e \in DOMAIN world \cup {ep} |->
                                         IF e = ep THEN c ELSE world[e]]
               /\ probe_start' = Append(probe_start, Len(out))
               /\ raised' = Append(raised, <<>>)
               /\ waited' = 0
               /\ pc' = "header"
       ELSE /\ pc' = "done"
            /\ UNCHANGED <<idx, uri, user, password, encrypted, world,
                           probe_start, raised, waited>>
    /\ UNCHANGED <<endpoints, destructor_closes, driver, session, exc, out,
                   open_drivers, open_sessions, calls>>

\* line 4: the header
Header ==
    /\ pc = "header"
    /\ out' = out \o header_text(uri, encrypted)
    /\ pc' = "driver"
    /\ UNCHANGED <<endpoints, world, destructor_closes, idx, uri, user, password,
                   encrypted, driver, session, exc, waited, open_drivers,
                   open_sessions, calls, probe_start, raised>>

\* lines 6-11: driver = GraphDatabase.driver(...)
Driver ==
    /\ pc = "driver"
    /\ LET d == GraphDatabase_driver(uri, <<user, password>>, encrypted,
                                     connection_timeout)
       IN /\ calls' = Append(calls, d)
          /\ IF cond(d).fail = "driver"
             THEN /\ exc' = <<ErrorAt("driver")>>
                  /\ pc' = "except"
                  /\ UNCHANGED <<driver, open_drivers>>
             ELSE /\ driver' = <<d>>
                  /\ open_drivers' = Append(open_drivers, d)
                  /\ pc' = "session"
                  /\ exc' = exc
    /\ UNCHANGED <<endpoints, world, destructor_closes, idx, uri, user, password,
                   encrypted, session, waited, out, open_sessions, probe_start,
                   raised>>

\* line 12: entering `with driver.session() as session`
Session ==
    /\ pc = "session"
    /\ IF cond(driver[1]).fail = "session"
       THEN /\ exc' = <<ErrorAt("session")>>
            /\ pc' = "except"
            /\ UNCHANGED <<session, open_sessions>>
       ELSE /\ session' = <<[driver |-> driver[1]]>>
            /\ open_sessions' = Append(open_sessions, [driver |-> driver[1]])
            /\ pc' = "run"
            /\ exc' = exc
    /\ UNCHANGED <<endpoints, world, destructor_closes, idx, uri, user, password,
                   encrypted, driver, waited, out, open_drivers, calls,
                   probe_start, raised>>

\* line 13, blocked: the endpoint does not answer the connection attempt
Wait ==
    /\ pc = "run"
    /\ cond(session[1].driver).fail = "timeout"
    /\ ~timed_out(session[1].driver, waited)
    /\ waited' = IF waited < MaxClock THEN waited + 1 ELSE waited
    /\ UNCHANGED <<endpoints, world, destructor_closes, idx, pc, uri, user,
                   password, encrypted, driver, session, exc, out, open_drivers,
                   open_sessions, calls, probe_start, raised>>

\* line 13: result = session.run(...), which connects and sends the query
Run ==
    /\ pc = "run"
    /\ LET d == session[1].driver
           f == cond(d).fail
       IN /\ f = "timeout" => timed_out(d, waited)
          /\ IF f \in {"refused", "timeout", "run"}
             THEN exc' = <<ErrorAt(f)>> /\ pc' = "exit"
             ELSE exc' = exc /\ pc' = "single"
    /\ UNCHANGED <<endpoints, world, destructor_closes, idx, uri, user, password,
                   encrypted, driver, session, waited, out, open_drivers,
                   open_sessions, calls, probe_start, raised>>

\* line 14: print("OK:", result.single()["msg"])
Single ==
    /\ pc = "single"
    /\ IF cond(session[1].driver).fail = "single"
       THEN exc' = <<ErrorAt("single")>> /\ out' = out
       ELSE exc' = exc /\ out' = Append(out, ok_line(evaluate(Query)))
    /\ pc' = "exit"
    /\ UNCHANGED <<endpoints, world, destructor_closes, idx, uri, user, password,
                   encrypted, driver, session, waited, open_drivers,
                   open_sessions, calls, probe_start, raised>>

\* line 12: leaving the `with` block closes the session; close() may raise,
\* and an exception of the block goes on to the handler
Exit ==
    /\ pc = "exit"
    /\ session' = <<>>
    /\ open_sessions' = SubSeq(open_sessions, 1, Len(open_sessions) - 1)
    /\ IF cond(session[1].driver).close
       THEN /\ exc' = <<ErrorAt("close")>>
            /\ pc' = "except"
            /\ UNCHANGED <<driver, open_drivers>>
       ELSE IF exc # <<>>
       THEN /\ pc' = "except"
            /\ UNCHANGED <<exc, driver, open_drivers>>
       ELSE /\ Return
            /\ exc' = exc
    /\ UNCHANGED <<endpoints, world, destructor_closes, idx, uri, user, password,
                   encrypted, waited, out, calls, probe_start, raised>>

\* lines 15-16: except Exception as e: print("ERROR:", repr(e))
Except ==
    /\ pc = "except"
    /\ raised' = [raised EXCEPT ![idx] = exc]
    /\ IF catches(exc[1])
       THEN /\ out' = Append(out, error_line(exc[1]))
            /\ exc' = <<>>
            /\ Return
       ELSE /\ pc' = "crashed"
            /\ UNCHANGED <<out, exc, driver, open_drivers>>
    /\ UNCHANGED <<endpoints, world, destructor_closes, idx, uri, user, password,
                   encrypted, session, waited, open_sessions, calls, probe_start>>

Start(eps) ==
    /\ endpoints = eps
    /\ world = <<>>
    /\ destructor_closes \in BOOLEAN
    /\ idx = 0
    /\ pc = "loop"
    /\ uri = "" /\ user = "" /\ password = "" /\ encrypted = FALSE
    /\ driver = <<>> /\ session = <<>> /\ exc = <<>>
    /\ waited = 0
    /\ out = <<>>
    /\ open_drivers = <<>> /\ open_sessions = <<>>
    /\ calls = <<>> /\ probe_start = <<>> /\ raised = <<>>

\* the script as written: the list of lines 19-32
Init == Start(EndpointList)

Next == ForNext \/ Header \/ Driver \/ Session \/ Wait \/ Run \/ Single \/ Exit \/ Except

Spec == Init /\ [][Next]_vars

\* every step of the script is taken once it can be: the interpreter runs on
FairSpec == Spec /\ WF_vars(Next)

\* test_connection called over a list that may name an endpoint more than once
RerunEndpoints == {EndpointList[1], EndpointList[2]}

InitRerun ==
    \E n \in 1..MaxReruns : \E eps \in [1..n -> RerunEndpoints] : Start(eps)

SpecRerun == InitRerun /\ [][Next]_vars

(***************************************************************************)
(* Reading the output back.                                                *)
(***************************************************************************)
starts_with(s, p) == Len(s) >= Len(p) /\ SubSeq(s, 1, Len(p)) = p

is_header(l) == starts_with(l, "=== Testing ")
is_ok(l) == starts_with(l, "OK: ")
is_error(l) == starts_with(l, "ERROR: ")
is_result(l) == is_ok(l) \/ is_error(l)

\* the lines of a text that are not blank
visible(text) == SelectSeq(text, LAMBDA l : l # "")

\* the lines written by the k-th call of test_connection
probe_lines(k) ==
    SubSeq(out, probe_start[k] + 1,
           IF k < Len(probe_start) THEN probe_start[k + 1] ELSE Len(out))

last_line(k) == probe_lines(k)[Len(probe_lines(k))]

\* the k-th call of test_connection has returned
has_returned(k) == k < idx \/ (k = idx /\ pc \in {"loop", "done"})

Returned == {k \in 1..idx : has_returned(k)}

\* the condition met by the k-th call
condition_of(k) == world[endpoints[k]]

\* the result classes the k-th call reported
result_class(k) ==
    {"Success" : j \in {j \in 1..Len(probe_lines(k)) : is_ok(probe_lines(k)[j])}}
    \cup
    {"Failure" : j \in {j \in 1..Len(probe_lines(k)) : is_error(probe_lines(k)[j])}}

(***************************************************************************)
(* C1: whatever stage of a probe fails (driver construction, session       *)
(* creation, query, reading the record, closing the session), the          *)
(* exception is handled inside test_connection: the run never ends with an *)
(* exception, no exception is in flight between two probes, and a probe    *)
(* that met a failure ends with an ERROR line.                             *)
(***************************************************************************)
C1_FailuresCaught ==
    /\ pc # "crashed"
    /\ pc \in {"loop", "done"} => exc = <<>>
    /\ \A k \in Returned :
         ~Healthy(condition_of(k)) => is_error(last_line(k))

\* every kind of failure has been met and the script has gone on to the end
C1_Witness ==
    /\ pc = "done"
    /\ \E k \in 1..(Len(endpoints) - 1) :
         /\ condition_of(k).fail = "session"
         /\ is_error(last_line(k))
         /\ Healthy(condition_of(k + 1))

(***************************************************************************)
(* C2: one call of test_connection writes, the blank separator aside,      *)
(* exactly two lines: the header, then exactly one result line, which is   *)
(* an OK line or an ERROR line.                                            *)
(***************************************************************************)
C2_TwoLines ==
    \A k \in Returned :
        LET L == visible(probe_lines(k))
        IN /\ Len(L) = 2
           /\ is_header(L[1])
           /\ is_result(L[2])

(***************************************************************************)
(* C3: when a probe has returned, every driver and every session it        *)
(* acquired has been released.                                             *)
(***************************************************************************)
C3_AllReleased ==
    pc \in {"loop", "done"} => open_drivers = <<>> /\ open_sessions = <<>>

(***************************************************************************)
(* C4: the 8 endpoints are probed one at a time in list order, each        *)
(* exactly once; a probe starts only when the one before has reported its  *)
(* result; the run does not end on a failure, and ends only when every     *)
(* endpoint has been probed.                                               *)
(***************************************************************************)
C4_Sequential ==
    /\ Len(endpoints) = 8
    /\ pc # "crashed"
    /\ idx <= Len(endpoints)
    /\ Len(probe_start) = idx
    /\ Len(calls) \in {n \in {idx - 1, idx} : n >= 0}
    /\ \A k \in 1..Len(calls) :
         calls[k].uri = endpoints[k][1] /\ calls[k].encrypted = endpoints[k][2]
    /\ \A k \in 1..idx :
         k < idx => /\ has_returned(k)
                    /\ \E j \in 1..Len(probe_lines(k)) : is_result(probe_lines(k)[j])
    /\ pc = "done" => idx = Len(endpoints) /\ Len(calls) = Len(endpoints)

\* the run has ended after a probe in the middle of the list failed
C4_Witness ==
    /\ pc = "done"
    /\ idx = 8
    /\ \E k \in 2..7 : condition_of(k).fail = "refused" /\ is_error(last_line(k))

(***************************************************************************)
(* C5: a probe whose driver, session, query and record read all succeed    *)
(* prints the result line "OK: Connection successful"; no OK line carries  *)
(* another message, and none is printed by a probe one of whose four       *)
(* stages failed.                                                          *)
(***************************************************************************)
C5_SuccessLiteral ==
    /\ \A k \in Returned :
         condition_of(k).fail = "none" =>
            /\ Len(visible(probe_lines(k))) >= 2
            /\ visible(probe_lines(k))[2] = "OK: Connection successful"
    /\ \A k \in 1..idx : \A j \in 1..Len(probe_lines(k)) :
         is_ok(probe_lines(k)[j]) =>
            /\ probe_lines(k)[j] = "OK: Connection successful"
            /\ condition_of(k).fail = "none"

\* a healthy endpoint has been probed and has answered
C5_Witness ==
    \E k \in Returned :
        /\ Healthy(condition_of(k))
        /\ visible(probe_lines(k))[2] = "OK: Connection successful"

(***************************************************************************)
(* C6: a connection attempt never blocks for more than connection_timeout  *)
(* seconds; a probe of an endpoint that refuses or does not answer reports *)
(* a Failure; every call of test_connection that has started returns, and   *)
(* the run ends.                                                           *)
(***************************************************************************)
C6_BoundedProbe ==
    /\ [](waited <= connection_timeout)
    /\ [](\A k \in Returned :
            condition_of(k).fail \in {"refused", "timeout"} =>
                result_class(k) = {"Failure"})
    /\ ((pc = "header") ~> (pc \in {"loop", "done"}))
    /\ <>(pc = "done")

\* a probe has given up after waiting for the whole timeout
C6_Witness ==
    /\ pc = "loop"
    /\ idx >= 1
    /\ condition_of(idx).fail = "timeout"
    /\ waited = connection_timeout
    /\ last_line(idx) = "ERROR: ServiceUnavailable('timed out')"

(***************************************************************************)
(* C7, as claimed: the description of an ERROR line is str() of the error. *)
(***************************************************************************)
C7_StrDescription ==
    \A k \in Returned :
        raised[k] # <<>> => last_line(k) = "ERROR: " \o str(raised[k][1])

(***************************************************************************)
(* C7, amended: the description of an ERROR line is repr() of the error    *)
(* (its class name and quoted arguments), and the error is not re-raised.  *)
(***************************************************************************)
C7_ReprDescription ==
    /\ \A k \in Returned :
         raised[k] # <<>> => last_line(k) = "ERROR: " \o repr(raised[k][1])
    /\ pc # "crashed"
    /\ pc \in {"loop", "done"} => exc = <<>>

\* errors with and without arguments have been reported
C7_Witness ==
    \E k \in Returned :
        /\ raised[k] = <<Exc("AuthError", <<"unauthorized">>)>>
        /\ last_line(k) = "ERROR: AuthError('unauthorized')"

(***************************************************************************)
(* C8: two probes of the same endpoint under the same conditions report    *)
(* the same result class, whatever was probed in between.                  *)
(***************************************************************************)
C8_Idempotent ==
    \A j \in Returned : \A k \in Returned :
        endpoints[j] = endpoints[k] => result_class(j) = result_class(k)

\* an endpoint probed twice, another one in between, with different results
C8_Witness ==
    /\ Len(endpoints) >= 3
    /\ has_returned(3)
    /\ endpoints[1] = endpoints[3]
    /\ endpoints[2] # endpoints[1]
    /\ result_class(1) # result_class(2)
    /\ open_drivers # <<>>

(***************************************************************************)
(* C9: the output is, in list order and the blank separators aside, one    *)
(* (header, result) pair per endpoint: the header of endpoint i names its  *)
(* URI and flag, is printed before the driver is built, and is followed by *)
(* the one result line of endpoint i, which precedes the next header.      *)
(***************************************************************************)
C9_HeaderResultPairs ==
    /\ Len(calls) <= Len(SelectSeq(out, is_header))
    /\ \A k \in Returned :
         /\ Len(visible(out)) >= 2 * k
         /\ visible(out)[2 * k - 1] =
              "=== Testing " \o endpoints[k][1] \o " (encrypted="
                  \o format_bool(endpoints[k][2]) \o ") ==="
         /\ is_result(visible(out)[2 * k])
    /\ pc = "done" => Len(visible(out)) = 2 * Len(endpoints)

(***************************************************************************)
(* C10: the endpoints list is never changed, and every driver is built     *)
(* with the endpoint's own URI and flag, user "neo4j", password "neo4j"    *)
(* and connection timeout 5, whatever the earlier probes met.              *)
(***************************************************************************)
C10_SameParameters ==
    /\ endpoints = EndpointList
    /\ idx >= 1 => user = "neo4j" /\ password = "neo4j"
    /\ \A k \in 1..Len(calls) :
         calls[k] = [uri |-> EndpointList[k][1], auth |-> <<"neo4j", "neo4j">>,
                     encrypted |-> EndpointList[k][2], connection_timeout |-> 5]

\* the last driver has been built after an earlier probe failed
C10_Witness ==
    /\ Len(calls) = 8
    /\ \E k \in 1..7 : has_returned(k) /\ condition_of(k).fail = "single"

====
